---- MODULE Spec2Model ----
(***************************************************************************)
(* Model of eventlistener.hpp (v0.3): the listener registry g_events, the  *)
(* registration, deletion and push operations, and CallEvent.              *)
(*                                                                         *)
(* Spec has one caller thread.  Registration and the three deletions are   *)
(* one step each (they lock, mutate, unlock).  PushEvent is followed step  *)
(* by step, because it calls CallEvent while it holds g_events_mutex and   *)
(* CallEvent locks the same std::mutex again.  FairSpec adds that the      *)
(* caller keeps running, SpecReenter adds callbacks that call              *)
(* DeleteEventListener, and SpecMT has several threads calling the         *)
(* operations.                                                             *)
(***************************************************************************)
EXTENDS Integers, Sequences, FiniteSets

\* ------------------------------------------------------------------ bounds
\* Number of CreateEventListener calls in a run.
MaxReg == 2

\* ----------------------------------------------------------------- domains
\* void *objAddress values; 0 is nullptr (the "global" owner).
Owners == {0, 1}

\* const char * values: addresses of string objects (0 would be NULL).
NamePtrs == {1, 2, 3}

\* The characters stored at each address: 1 and 2 are two different string
\* objects holding the same text.
Content(p) == IF p = 3 THEN "Y" ELSE "X"

\* Template argument packs <arguments...> a callback or a push is built with.
Shapes == {"void", "int"}

\* The threads of the concurrent specification.
Threads == {"t1", "t2"}

\* int id arguments tried for DeleteEventListener.
Ids == 0 .. MaxReg

\* What a user callback does when it is invoked.
\*   "return" - returns normally
\*   "std"    - throws an exception derived from std::exception
\*   "other"  - throws something else (throw 42;)
Behaviours == {"return", "std", "other"}

\* What locking a std::mutex that the calling thread already owns does.  The
\* behaviour is undefined; the outcomes builds produce are:
\*   "noop"  - the lock call does nothing (libstdc++ without libpthread)
\*   "block" - the thread blocks for ever
\*   "throw" - std::system_error (resource_deadlock_would_occur)
Relocks == {"noop", "block", "throw"}

VARIABLES
    g_events,        \* std::vector<SListener>
    nextId,          \* static int id of each CreateEventListener<arguments...>
    heap,            \* the callback objects: heap[fn] is the shape of *fn
    g_events_mutex,  \* TRUE when the mutex is owned
    relock,          \* what this build does on a second lock by the owner
    pc,              \* position of the caller
    op,              \* the operation in progress or last completed
    pre,             \* g_events when that operation started
    i,               \* PushEvent's position in g_events
    j,               \* CallEvent's position in g_events
    objAddress,      \* CallEvent's parameter objAddress
    count,           \* the local int count of the operation
    ret,             \* value returned by the last completed operation
    exc,             \* exception that left the last operation, or "none"
    log,             \* callbacks invoked by the push, in order (fn values)
    faulted,         \* callbacks that threw during this push
    issued,          \* ids given to listener records, in registration order
    deleted,         \* callbacks whose record a returned deletion matched
    removedIds,      \* ids a DeleteEventListener matched since the last
                     \* registration
    ctx,             \* the SEvent values passed to the callbacks of the push,
                     \* in order (ctx[k] went to log[k])
    reentered,       \* a callback of this push called DeleteEventListener
                     \* and that call returned
    thr              \* the threads of the concurrent specification: where
                     \* each stands and which operation it called

vars == <<g_events, nextId, heap, g_events_mutex, relock, pc, op, pre, i, j,
          objAddress, count, ret, exc, log, faulted, issued, deleted, removedIds, ctx,
          reentered, thr>>

\* struct SListener { int id; void *address; const char *name; void **fn; }
SListener(id, address, name, fn) ==
    [id |-> id, address |-> address, name |-> name, fn |-> fn]

NoOp == [kind |-> "none", address |-> 0, name |-> 0, id |-> 0,
         shape |-> "void", again |-> FALSE]

Init ==
    /\ g_events = << >>
    /\ nextId = [s \in Shapes |-> 0]
    /\ heap = << >>
    /\ g_events_mutex = FALSE
    /\ relock \in Relocks
    /\ pc = "idle"
    /\ op = NoOp
    /\ pre = << >>
    /\ i = 0
    /\ j = 0
    /\ objAddress = 0
    /\ count = 0
    /\ ret = 0
    /\ exc = "none"
    /\ log = << >>
    /\ faulted = {}
    /\ issued = << >>
    /\ deleted = {}
    /\ removedIds = {}
    /\ ctx = << >>
    /\ reentered = FALSE
    /\ thr = [t \in Threads |-> [st |-> "idle", kind |-> "none"]]

\* The elements of a sequence.
Range(s) == {s[k] : k \in 1 .. Len(s)}

\* std::remove_if on a vector of trivially copyable records, hit being the
\* records the predicate is true of: the records that are kept are moved to
\* the front in order; the vector keeps its size, and the positions behind
\* the kept ones hold what they held before.
RemoveIf(s, hit) ==
    LET kept == SelectSeq(s, LAMBDA x : x \notin hit)
    IN  [k \in 1 .. Len(s) |-> IF k <= Len(kept) THEN kept[k] ELSE s[k]]

\* The callbacks of the records in hit.
Matched(hit) == {x.fn : x \in hit}

\* NumMatching with ++count in the else branch of the predicate.
NumNotMatching(s, hit) == Cardinality({k \in 1 .. Len(s) : s[k] \notin hit})

\* Number of times the predicate of the scan of s is true: once for every
\* position that holds a record in hit.
NumMatching(s, hit) == Cardinality({k \in 1 .. Len(s) : s[k] \in hit})

\* ------------------------------------------------------------ registration
\* template <typename... arguments> void CreateEventListener(objAddress,
\* eventName, pfn): the static int id belongs to the instantiation for the
\* callback's argument pack s; pfn is a new callback object.
CreateEventListener(a, n, s) ==
    /\ pc = "idle"
    /\ Len(heap) < MaxReg
    /\ heap' = Append(heap, s)
    /\ g_events' = Append(g_events, SListener(nextId[s], a, n, Len(heap) + 1))
    /\ nextId' = [nextId EXCEPT ![s] = @ + 1]
    /\ issued' = Append(issued, nextId[s])
    /\ removedIds' = {}
    /\ pc' = "done"
    /\ op' = [NoOp EXCEPT !.kind = "register", !.address = a, !.name = n,
                          !.shape = s]
    /\ pre' = g_events
    /\ ret' = 0
    /\ exc' = "none"
    /\ UNCHANGED <<g_events_mutex, relock, i, j, count, log, faulted, deleted>>
    /\ UNCHANGED <<ctx, thr, reentered>>
    /\ UNCHANGED objAddress

\* ---------------------------------------------------------------- deletion
\* int DeleteEventListener(int id): the predicate counts every record it
\* matches; the iterator std::remove_if returns is not used.
DeleteEventListener(id) ==
    /\ pc = "idle"
    /\ LET hit == {x \in Range(g_events) : x.id = id}
           n == NumMatching(g_events, hit)
       IN  /\ g_events' = RemoveIf(g_events, hit)
           /\ count' = n
           /\ ret' = n
           /\ deleted' = deleted \cup Matched(hit)
           /\ removedIds' = IF n > 0 THEN removedIds \cup {id} ELSE removedIds
    /\ pc' = "done"
    /\ op' = [NoOp EXCEPT !.kind = "removeById", !.id = id,
                          !.again = (id \in removedIds)]
    /\ pre' = g_events
    /\ exc' = "none"
    /\ UNCHANGED <<nextId, heap, g_events_mutex, relock, i, j, log, faulted,
                   issued>>
    /\ UNCHANGED <<ctx, thr, reentered>>
    /\ UNCHANGED objAddress

\* int DeleteEventListeners(void *objAddress): ++count stands behind the
\* return statement, so count stays 0.
DeleteEventListenersByAddress(a) ==
    /\ pc = "idle"
    /\ LET hit == {x \in Range(g_events) : x.address = a}
       IN  /\ g_events' = RemoveIf(g_events, hit)
           /\ deleted' = deleted \cup Matched(hit)
    /\ count' = 0
    /\ ret' = 0
    /\ pc' = "done"
    /\ op' = [NoOp EXCEPT !.kind = "removeByOwner", !.address = a]
    /\ pre' = g_events
    /\ exc' = "none"
    /\ UNCHANGED <<nextId, heap, g_events_mutex, relock, i, j, log, faulted,
                   issued, removedIds>>
    /\ UNCHANGED <<ctx, thr, reentered>>
    /\ UNCHANGED objAddress

\* int DeleteEventListeners(const char *eventName): the names are compared
\* as pointers; ++count stands behind the return statement.
DeleteEventListenersByName(n) ==
    /\ pc = "idle"
    /\ LET hit == {x \in Range(g_events) : x.name = n}
       IN  /\ g_events' = RemoveIf(g_events, hit)
           /\ deleted' = deleted \cup Matched(hit)
    /\ count' = 0
    /\ ret' = 0
    /\ pc' = "done"
    /\ op' = [NoOp EXCEPT !.kind = "removeByName", !.name = n]
    /\ pre' = g_events
    /\ exc' = "none"
    /\ UNCHANGED <<nextId, heap, g_events_mutex, relock, i, j, log, faulted,
                   issued, removedIds>>
    /\ UNCHANGED <<ctx, thr, reentered>>
    /\ UNCHANGED objAddress

\* -------------------------------------------------------------------- push
\* std::lock_guard on g_events_mutex: where lock() does nothing the mutex is
\* never owned.
Locked == relock # "noop"

\* int PushEvent(const char *eventName, Args... args): entry.
PushEventByName(n, s) ==
    /\ pc = "idle"
    /\ pc' = "scan"
    /\ op' = [NoOp EXCEPT !.kind = "pushName", !.name = n, !.shape = s]
    /\ g_events_mutex' = Locked
    /\ count' = 0
    /\ i' = 1
    /\ j' = 0
    /\ log' = << >>
    /\ faulted' = {}
    /\ pre' = g_events
    /\ ret' = 0
    /\ exc' = "none"
    /\ UNCHANGED <<g_events, nextId, heap, relock, issued, deleted,
                   removedIds>>
    /\ ctx' = << >>
    /\ reentered' = FALSE
    /\ UNCHANGED thr
    /\ objAddress' = 0

\* int PushEvent(void *objAddress, const char *eventName, Args... args): entry.
PushEventByAddress(a, n, s) ==
    /\ pc = "idle"
    /\ pc' = "scan"
    /\ op' = [NoOp EXCEPT !.kind = "pushOwner", !.address = a, !.name = n,
                          !.shape = s]
    /\ g_events_mutex' = Locked
    /\ count' = 0
    /\ i' = 1
    /\ j' = 0
    /\ log' = << >>
    /\ faulted' = {}
    /\ pre' = g_events
    /\ ret' = 0
    /\ exc' = "none"
    /\ UNCHANGED <<g_events, nextId, heap, relock, issued, deleted,
                   removedIds>>
    /\ ctx' = << >>
    /\ reentered' = FALSE
    /\ UNCHANGED thr
    /\ objAddress' = 0

\* PushMatches with || written for && in the owner-scoped overload.
PushMatchesEither(listener) ==
    IF op.kind = "pushOwner"
    THEN listener.address = op.address \/ listener.name = op.name
    ELSE listener.name = op.name

\* The if of the for loop of the PushEvent in progress.
PushMatches(listener) ==
    IF op.kind = "pushOwner"
    THEN listener.address = op.address /\ listener.name = op.name
    ELSE listener.name = op.name

\* One iteration of PushEvent's for loop on a record that does not match.
PushSkip ==
    /\ pc = "scan"
    /\ i <= Len(g_events)
    /\ ~PushMatches(g_events[i])
    /\ i' = i + 1
    /\ UNCHANGED <<g_events, nextId, heap, g_events_mutex, relock, pc, op, pre,
                   j, count, ret, exc, log, faulted, issued, deleted,
                   removedIds>>
    /\ UNCHANGED <<ctx, thr, reentered>>
    /\ UNCHANGED objAddress

\* PushEvent calls CallEvent on a matching record, and CallEvent constructs
\* its lock_guard on the mutex PushEvent owns.
CallEventEnter ==
    /\ pc = "scan"
    /\ i <= Len(g_events)
    /\ PushMatches(g_events[i])
    /\ \/ /\ relock = "noop"
          /\ pc' = "call"
          /\ j' = 1
          /\ objAddress' = g_events[i].address
          /\ UNCHANGED <<g_events_mutex, exc>>
       \/ /\ relock = "block"
          /\ pc' = "deadlock"
          /\ UNCHANGED <<j, objAddress, g_events_mutex, exc>>
       \/ /\ relock = "throw"
          /\ pc' = "done"
          /\ exc' = "system_error"
          /\ g_events_mutex' = FALSE
          /\ UNCHANGED <<j, objAddress>>
    /\ UNCHANGED <<g_events, nextId, heap, relock, op, pre, i, count, ret, log,
                   faulted, issued, deleted, removedIds>>
    /\ UNCHANGED <<ctx, thr, reentered>>

\* The if of the for loop of CallEvent(objAddress, eventName, args...).
CallMatches(event) ==
    event.address = objAddress /\ op.name # 0

\* One iteration of CallEvent's loop on a record of another address.
CallSkip ==
    /\ pc = "call"
    /\ j <= Len(g_events)
    /\ ~CallMatches(g_events[j])
    /\ j' = j + 1
    /\ UNCHANGED <<g_events, nextId, heap, g_events_mutex, relock, pc, op, pre,
                   i, count, ret, exc, log, faulted, issued, deleted,
                   removedIds>>
    /\ UNCHANGED <<ctx, thr, reentered>>
    /\ UNCHANGED objAddress

\* What the call through (EventFunction<arguments...> *)event.fn can do: the
\* callback's own behaviour, or, when the object is of another type than the
\* cast says, anything including the end of the process.
Outcomes(fn) ==
    IF heap[fn] = op.shape THEN Behaviours ELSE Behaviours \cup {"crash"}

\* Context with the id of the record PushEvent stands on in place of event.id.
ContextOfListener(event) ==
    [id |-> g_events[i].id, address |-> objAddress, name |-> Content(op.name)]

\* SEvent{event.id, (uintptr_t)objAddress, std::string(eventName)}: the value
\* CallEvent passes to the callback of event; the std::string holds the
\* characters of the name.
Context(event) ==
    [id |-> event.id, address |-> objAddress, name |-> Content(op.name)]

\* One iteration of CallEvent's loop on a record of the address: the callback
\* is invoked inside try { } catch (std::exception &).
CallInvoke ==
    /\ pc = "call"
    /\ j <= Len(g_events)
    /\ CallMatches(g_events[j])
    /\ log' = Append(log, g_events[j].fn)
    /\ \E o \in Outcomes(g_events[j].fn) :
          \/ /\ o = "return"
             /\ j' = j + 1
             /\ UNCHANGED <<pc, exc, faulted>>
          \/ /\ o = "std"
             /\ j' = j + 1
             /\ faulted' = faulted \cup {g_events[j].fn}
             /\ UNCHANGED <<pc, exc>>
          \/ /\ o = "other"
             /\ pc' = "done"
             /\ exc' = "other"
             /\ faulted' = faulted \cup {g_events[j].fn}
             /\ UNCHANGED j
          \/ /\ o = "crash"
             /\ pc' = "crashed"
             /\ UNCHANGED <<j, exc, faulted>>
    /\ UNCHANGED <<g_events, nextId, heap, g_events_mutex, relock, op, pre, i,
                   count, ret, issued, deleted, removedIds>>
    /\ ctx' = Append(ctx, Context(g_events[j]))
    /\ UNCHANGED <<thr, reentered>>
    /\ UNCHANGED objAddress

\* CallEvent returns to PushEvent, which executes ++count and goes on.
CallEventReturn ==
    /\ pc = "call"
    /\ j > Len(g_events)
    /\ pc' = "scan"
    /\ count' = count + 1
    /\ i' = i + 1
    /\ UNCHANGED <<g_events, nextId, heap, g_events_mutex, relock, op, pre, j,
                   ret, exc, log, faulted, issued, deleted, removedIds>>
    /\ UNCHANGED <<ctx, thr, reentered>>
    /\ UNCHANGED objAddress

\* PushEvent's loop is over: return count.
PushEventReturn ==
    /\ pc = "scan"
    /\ i > Len(g_events)
    /\ pc' = "done"
    /\ ret' = count
    /\ g_events_mutex' = FALSE
    /\ UNCHANGED <<g_events, nextId, heap, relock, op, pre, i, j, count, exc,
                   log, faulted, issued, deleted, removedIds>>
    /\ UNCHANGED <<ctx, thr, reentered>>
    /\ UNCHANGED objAddress

\* The caller has the result and is ready for its next call.
Return ==
    /\ pc = "done"
    /\ pc' = "idle"
    /\ op' = NoOp
    /\ pre' = << >>
    /\ i' = 0
    /\ j' = 0
    /\ count' = 0
    /\ ret' = 0
    /\ exc' = "none"
    /\ log' = << >>
    /\ faulted' = {}
    /\ UNCHANGED <<g_events, nextId, heap, g_events_mutex, relock, issued,
                   deleted, removedIds>>
    /\ ctx' = << >>
    /\ reentered' = FALSE
    /\ UNCHANGED thr
    /\ objAddress' = 0

Next ==
    \/ \E a \in Owners, n \in NamePtrs, s \in Shapes : CreateEventListener(a, n, s)
    \/ \E id \in Ids : DeleteEventListener(id)
    \/ \E a \in Owners : DeleteEventListenersByAddress(a)
    \/ \E n \in NamePtrs : DeleteEventListenersByName(n)
    \/ \E n \in NamePtrs, s \in Shapes : PushEventByName(n, s)
    \/ \E a \in Owners, n \in NamePtrs, s \in Shapes : PushEventByAddress(a, n, s)
    \/ PushSkip
    \/ CallEventEnter
    \/ CallSkip
    \/ CallInvoke
    \/ CallEventReturn
    \/ PushEventReturn
    \/ Return

Spec == Init /\ [][Next]_vars

\* ---------------------------------------------------- re-entrant callbacks
\* One iteration of CallEvent's loop in which the callback invoked calls
\* DeleteEventListener(id) itself (with the id of its SEvent, or another).
\* The lock_guard of that call is on the mutex its thread owns.  Where lock()
\* does nothing the call runs std::remove_if on g_events, which moves records
\* and leaves the size of the vector and the loops' positions alone, and
\* returns; the callback returns after it.  Elsewhere the call blocks, or
\* throws std::system_error through the callback into CallEvent's catch.
CallReenter ==
    /\ pc = "call"
    /\ j <= Len(g_events)
    /\ CallMatches(g_events[j])
    /\ log' = Append(log, g_events[j].fn)
    /\ ctx' = Append(ctx, Context(g_events[j]))
    /\ \E id \in Ids :
          LET hit == {x \in Range(g_events) : x.id = id}
          IN  IF relock = "noop"
              THEN /\ g_events' = RemoveIf(g_events, hit)
                   /\ deleted' = deleted \cup Matched(hit)
                   /\ removedIds' = IF hit # {} THEN removedIds \cup {id}
                                                ELSE removedIds
                   /\ reentered' = TRUE
                   /\ j' = j + 1
                   /\ UNCHANGED <<pc, faulted>>
              ELSE IF relock = "block"
              THEN /\ pc' = "deadlock"
                   /\ UNCHANGED <<g_events, deleted, removedIds, reentered, j,
                                  faulted>>
              ELSE /\ faulted' = faulted \cup {g_events[j].fn}
                   /\ j' = j + 1
                   /\ UNCHANGED <<g_events, deleted, removedIds, reentered, pc>>
    /\ UNCHANGED <<nextId, heap, g_events_mutex, relock, op, pre, i, objAddress,
                   count, ret, exc, issued, thr>>

NextReenter ==
    \/ Next
    \/ CallReenter

SpecReenter == Init /\ [][NextReenter]_vars

\* The steps inside PushEvent and CallEvent.  The caller's thread keeps
\* running: whenever it can take a step of the push it is in, it does so in
\* the end.
Step ==
    \/ PushSkip
    \/ CallEventEnter
    \/ CallSkip
    \/ CallInvoke
    \/ CallEventReturn
    \/ PushEventReturn

FairSpec == Spec /\ WF_vars(Step)

\* ------------------------------------------------------ several threads
\* The same operations called by the threads of Threads.  A program with
\* threads is linked with the thread library, so lock() is never a no-op
\* here.  Every operation constructs its lock_guard first (MTLock) and runs
\* under it; the arguments of a call are drawn when its body runs.
Kinds == {"register", "removeById", "removeByOwner", "removeByName",
          "pushName", "pushOwner"}

InitMT == Init /\ relock # "noop"

\* Free for a lock() that never waits.
FreeAlways(m) == TRUE

\* std::mutex::lock() goes on only when no thread owns the mutex.
Free(m) == m = FALSE

\* The variables of the single caller, which the threads do not use.
callerVars == <<pc, op, pre, i, j, objAddress, count, ret, exc, log, faulted, ctx,
                reentered>>

Idle == [st |-> "idle", kind |-> "none"]

\* Calls of CreateEventListener that are under way.
Registering == {u \in Threads : thr[u].kind = "register"}

\* Thread t calls a public operation.
MTCall(t, k) ==
    /\ thr[t].st = "idle"
    /\ k = "register" => Len(heap) + Cardinality(Registering) < MaxReg
    /\ thr' = [thr EXCEPT ![t] = [st |-> "wait", kind |-> k]]
    /\ UNCHANGED <<g_events, nextId, heap, g_events_mutex, relock, issued,
                   deleted, removedIds, callerVars>>

\* const std::lock_guard<std::mutex> lock(g_events_mutex) in thread t.
MTLock(t) ==
    /\ thr[t].st = "wait"
    /\ Free(g_events_mutex)
    /\ g_events_mutex' = TRUE
    /\ thr' = [thr EXCEPT ![t].st = "in"]
    /\ UNCHANGED <<g_events, nextId, heap, relock, issued, deleted, removedIds,
                   callerVars>>

\* The body of CreateEventListener in thread t, and the end of its lock_guard.
MTCreate(t, a, n, s) ==
    /\ thr[t] = [st |-> "in", kind |-> "register"]
    /\ heap' = Append(heap, s)
    /\ g_events' = Append(g_events, SListener(nextId[s], a, n, Len(heap) + 1))
    /\ nextId' = [nextId EXCEPT ![s] = @ + 1]
    /\ issued' = Append(issued, nextId[s])
    /\ removedIds' = {}
    /\ g_events_mutex' = FALSE
    /\ thr' = [thr EXCEPT ![t] = Idle]
    /\ UNCHANGED <<relock, deleted, callerVars>>

\* The body of one of the three deletions in thread t, hit being the records
\* its predicate is true of, and the end of its lock_guard.
MTRemove(t, hit) ==
    /\ g_events' = RemoveIf(g_events, hit)
    /\ deleted' = deleted \cup Matched(hit)
    /\ g_events_mutex' = FALSE
    /\ thr' = [thr EXCEPT ![t] = Idle]
    /\ UNCHANGED <<nextId, heap, relock, issued, callerVars>>

MTDelete(t, id) ==
    /\ thr[t] = [st |-> "in", kind |-> "removeById"]
    /\ LET hit == {x \in Range(g_events) : x.id = id}
       IN  /\ MTRemove(t, hit)
           /\ removedIds' = IF hit # {} THEN removedIds \cup {id} ELSE removedIds

MTDeleteByAddress(t, a) ==
    /\ thr[t] = [st |-> "in", kind |-> "removeByOwner"]
    /\ MTRemove(t, {x \in Range(g_events) : x.address = a})
    /\ UNCHANGED removedIds

MTDeleteByName(t, n) ==
    /\ thr[t] = [st |-> "in", kind |-> "removeByName"]
    /\ MTRemove(t, {x \in Range(g_events) : x.name = n})
    /\ UNCHANGED removedIds

\* The records the if of PushEvent's loop is true of, for a push of kind k
\* with arguments a and n.
PushHits(k, a, n) ==
    {x \in Range(g_events) : x.name = n /\ (k = "pushOwner" => x.address = a)}

\* PushEvent in thread t, from its loop to its end.  Without a matching
\* record it returns 0.  On the first matching record it calls CallEvent,
\* whose lock_guard is on the mutex the thread owns: the thread blocks for
\* ever with the mutex, or std::system_error takes it out of PushEvent.
MTPush(t, a, n) ==
    /\ thr[t].st = "in"
    /\ thr[t].kind \in {"pushName", "pushOwner"}
    /\ IF PushHits(thr[t].kind, a, n) # {} /\ relock = "block"
       THEN /\ thr' = [thr EXCEPT ![t].st = "deadlock"]
            /\ UNCHANGED g_events_mutex
       ELSE /\ thr' = [thr EXCEPT ![t] = Idle]
            /\ g_events_mutex' = FALSE
    /\ UNCHANGED <<g_events, nextId, heap, relock, issued, deleted, removedIds,
                   callerVars>>

NextMT ==
    \/ \E t \in Threads, k \in Kinds : MTCall(t, k)
    \/ \E t \in Threads : MTLock(t)
    \/ \E t \in Threads, a \in Owners, n \in NamePtrs, s \in Shapes :
           MTCreate(t, a, n, s)
    \/ \E t \in Threads, id \in Ids : MTDelete(t, id)
    \/ \E t \in Threads, a \in Owners : MTDeleteByAddress(t, a)
    \/ \E t \in Threads, n \in NamePtrs : MTDeleteByName(t, n)
    \/ \E t \in Threads, a \in Owners, n \in NamePtrs : MTPush(t, a, n)

SpecMT == InitMT /\ [][NextMT]_vars

\* ---------------------------------------------------------------- helpers
\* The fn fields of a sequence of records, in order.
Fns(s) == [k \in 1 .. Len(s) |-> s[k].fn]

\* Two event names are equal as strings.
SameName(p, q) == Content(p) = Content(q)

\* No record of s is named by another string object of the same text as n.
NoAlias(s, n) == \A x \in Range(s) : SameName(x.name, n) => x.name = n

\* A push has returned to its caller with a value.
PushReturned == pc = "done" /\ op.kind \in {"pushName", "pushOwner"} /\ exc = "none"

\* The records of the store a push is meant to reach.
Target(x) ==
    /\ SameName(x.name, op.name)
    /\ op.kind = "pushOwner" => x.address = op.address

\* The caller of the push kept its side of the contract: the arguments have
\* the shape the targeted callbacks take.
InContract == \A x \in Range(pre) : Target(x) => heap[x.fn] = op.shape

\* The plain case of a push: in contract, no two string objects of one text
\* in play, and no callback has thrown.
Plain == InContract /\ NoAlias(pre, op.name) /\ faulted = {}

\* ------------------------------------------------------------------ claims
\* C1: the ids given to listener records are strictly increasing in
\* registration order (hence pairwise distinct and never given twice).
C1_IdsStrictlyIncreasing ==
    \A a, b \in 1 .. Len(issued) : a < b => issued[a] < issued[b]

\* C2: a push by name that has returned invoked exactly the listeners of that
\* name, once each, in store order.
C2_PushByNameInvokesExactlyNamed ==
    (PushReturned /\ op.kind = "pushName" /\ Plain)
        => log = Fns(SelectSeq(pre, Target))

\* C3: an owner-scoped push invokes only listeners of that owner and name.
C3_PushByOwnerInvokesOnlyOwnerAndName ==
    (op.kind = "pushOwner" /\ Plain)
        => \A k \in 1 .. Len(log) : \A x \in Range(pre) :
               x.fn = log[k] => (x.address = op.address /\ SameName(x.name, op.name))

\* C4: the value a push returns is the number of callback invocations it made.
C4_PushReturnsInvocationCount ==
    (PushReturned /\ Plain) => ret = Len(log)

\* C5: DeleteEventListener with the id of a record of the store returns 1 and
\* leaves the store without that record and otherwise as it was.
C5_RemoveByIdRemovesExactlyThatRecord ==
    (pc = "done" /\ op.kind = "removeById"
        /\ Cardinality({k \in 1 .. Len(pre) : pre[k].id = op.id}) = 1)
        => /\ ret = 1
           /\ g_events = SelectSeq(pre, LAMBDA x : x.id # op.id)

\* C6: a second DeleteEventListener of an id that an earlier one matched, with
\* no registration in between, returns 0.
C6_RemoveByIdIdempotent ==
    (pc = "done" /\ op.kind = "removeById" /\ op.again) => ret = 0

\* C7: no push invokes the callback of a listener that a returned deletion
\* had matched.
C7_DeletedNeverInvoked ==
    \A k \in 1 .. Len(log) : log[k] \notin deleted

\* C8: the two DeleteEventListeners leave exactly the records that do not
\* match, in their order.
C8_RemoveAllRemovesAllAndOnlyMatching ==
    /\ (pc = "done" /\ op.kind = "removeByOwner")
          => g_events = SelectSeq(pre, LAMBDA x : x.address # op.address)
    /\ (pc = "done" /\ op.kind = "removeByName" /\ NoAlias(pre, op.name))
          => g_events = SelectSeq(pre, LAMBDA x : x.name # op.name)

\* C9: the two DeleteEventListeners return the number of records that matched.
C9_RemoveAllReturnsMatchCount ==
    /\ (pc = "done" /\ op.kind = "removeByOwner")
          => ret = Cardinality({k \in 1 .. Len(pre) : pre[k].address = op.address})
    /\ (pc = "done" /\ op.kind = "removeByName" /\ NoAlias(pre, op.name))
          => ret = Cardinality({k \in 1 .. Len(pre) : pre[k].name = op.name})

\* C10: when a callback throws during a push, nothing reaches the caller of
\* the push, every targeted listener is invoked, and the value returned
\* counts all of them.
C10_FaultIsolation ==
    (pc = "done" /\ op.kind \in {"pushName", "pushOwner"} /\ faulted # {}
        /\ NoAlias(pre, op.name) /\ InContract)
        => /\ exc = "none"
           /\ \A x \in Range(pre) : Target(x) => x.fn \in Range(log)
           /\ ret = Cardinality({k \in 1 .. Len(pre) : Target(pre[k])})

\* No call of any thread is under way.
AllReturned == \A t \in Threads : thr[t].st = "idle"

\* C11: when the concurrent registrations have completed (and nothing has
\* been deleted), the store holds one record for each of them and their ids
\* are pairwise distinct.
C11_ConcurrentRegistrationsDistinctIds ==
    (AllReturned /\ deleted = {})
        => /\ Len(g_events) = Len(heap)
           /\ \A a, b \in 1 .. Len(g_events) :
                  a # b => g_events[a].id # g_events[b].id

\* C12: a push whose callbacks all return comes back to its caller (the
\* other operations are over in the step that starts them).
C12_EveryCallReturns ==
    (pc = "scan") ~> (pc = "done" \/ pc = "crashed" \/ faulted # {})

\* The operation in progress or just completed is a push.
IsPush == op.kind \in {"pushName", "pushOwner"}

\* The store held no record the push is meant to reach.
NoTarget == \A x \in Range(pre) : ~Target(x)

\* C13: a push whose criteria match no listener invokes no callback, raises
\* nothing, leaves the store as it was, is never held up, and returns 0.
C13_PushWithoutMatch ==
    (IsPush /\ NoTarget)
        => /\ log = << >>
           /\ exc = "none"
           /\ g_events = pre
           /\ pc \in {"scan", "done"}
           /\ pc = "done" => ret = 0

\* An owner-scoped push has returned that found its name in the store, under
\* other owners only.
C13_Witness ==
    /\ pc = "done"
    /\ op.kind = "pushOwner"
    /\ NoTarget
    /\ \E x \in Range(pre) : SameName(x.name, op.name)
    /\ ret = 0

\* The argument of the deletion just completed matched no record of the
\* store: no record of that id, of that owner, or of a name of that text.
NoMatch ==
    \/ op.kind = "removeById" /\ \A x \in Range(pre) : x.id # op.id
    \/ op.kind = "removeByOwner" /\ \A x \in Range(pre) : x.address # op.address
    \/ op.kind = "removeByName" /\ \A x \in Range(pre) : ~SameName(x.name, op.name)

\* C14: a deletion whose argument matches no record returns 0, raises
\* nothing and leaves the store as it was.
C14_RemoveWithoutMatch ==
    (pc = "done" /\ NoMatch) => (ret = 0 /\ exc = "none" /\ g_events = pre)

\* DeleteEventListener has returned from a store with records for an id that
\* none of them has.
C14_Witness ==
    /\ pc = "done"
    /\ op.kind = "removeById"
    /\ NoMatch
    /\ pre # << >>
    /\ ret = 0
    /\ g_events = pre

\* The owner a push is scoped to: its owner argument, or nullptr when it has
\* none.
Scope == IF op.kind = "pushOwner" THEN op.address ELSE 0

\* C15 as stated: every callback a push invokes gets the id of its listener,
\* the name pushed, and the scope of the push as owner (nullptr for a push
\* by name).
C15_ContextCarriesScope ==
    IsPush => /\ Len(ctx) = Len(log)
              /\ \A k \in 1 .. Len(ctx) :
                    /\ \A x \in Range(pre) : x.fn = log[k] => ctx[k].id = x.id
                    /\ ctx[k].name = Content(op.name)
                    /\ ctx[k].address = Scope

\* C15 amended: every callback a push invokes gets the id of its listener,
\* the name pushed, and as owner the address its listener was registered
\* with, which for an owner-scoped push is the owner pushed.
C15_ContextCarriesListenerOwner ==
    IsPush => /\ Len(ctx) = Len(log)
              /\ \A k \in 1 .. Len(ctx) :
                    /\ \A x \in Range(pre) :
                          x.fn = log[k] => (ctx[k].id = x.id /\ ctx[k].address = x.address)
                    /\ ctx[k].name = Content(op.name)
                    /\ op.kind = "pushOwner" => ctx[k].address = op.address

\* A push by name has invoked two callbacks, the second one for a listener
\* that has an owner.
C15_Witness ==
    /\ op.kind = "pushName"
    /\ Len(ctx) >= 2
    /\ ctx[2].address # 0
    /\ ctx[2].id # ctx[1].id

\* C16: the first listener ever created gets id 1 and the second gets id 2.
C16_IdsStartAtOne ==
    \A k \in 1 .. Len(issued) : issued[k] = k

\* C17: a call into the registry made by a callback during a push never
\* returns, and the push that invoked the callback never completes.
C17_ReentrantCallNeverReturns ==
    ~reentered

\* C18: no two records of the store carry the same id, and
\* DeleteEventListener returns 0 or 1.
C18_StoreIdsUnique ==
    /\ \A a, b \in 1 .. Len(g_events) : a # b => g_events[a].id # g_events[b].id
    /\ (pc = "done" /\ op.kind = "removeById") => ret \in {0, 1}

\* C19: a push by name that has returned has invoked every listener whose
\* name has the characters of the name pushed, whichever string object it
\* was registered with.
C19_NamesMatchByValue ==
    (PushReturned /\ op.kind = "pushName" /\ InContract /\ faulted = {})
        => \A x \in Range(pre) : SameName(x.name, op.name) => x.fn \in Range(log)

\* The threads that are under the lock_guard of a public operation.
Inside == {t \in Threads : thr[t].st \in {"in", "deadlock"}}

\* C20: at most one thread at a time is inside a public operation, the mutex
\* is owned exactly while a thread is inside, and it is free whenever no
\* operation is in progress.
C20_LockDiscipline ==
    /\ Cardinality(Inside) <= 1
    /\ g_events_mutex = (Inside # {})
    /\ AllReturned => Free(g_events_mutex)

\* A thread is inside an operation on a store with records while another
\* one waits for the mutex.
C20_Witness ==
    /\ g_events # << >>
    /\ \E t, u \in Threads : thr[t].st = "in" /\ thr[u].st = "wait"

====
